---- MODULE Spec2Model ----
(***************************************************************************)
(* Clock-domain-crossing primitives of nmigen/lib/cdc.py: MultiReg,        *)
(* ResetSynchronizer, PulseSynchronizer, BusSynchronizer, ElasticBuffer    *)
(* and Gearbox.  Each primitive is modelled as the circuit its elaborate() *)
(* builds: one record of registers per instance, one action per active     *)
(* clock edge of each of its domains (all the synchronous assignments of   *)
(* that domain taken at once), combinational assignments as operators.     *)
(* The clocks of different domains are free running: their edges           *)
(* interleave arbitrarily unless a specification says otherwise.           *)
(***************************************************************************)
EXTENDS Integers, Sequences, FiniteSets

VARIABLES
    mreg,   \* a MultiReg instance: parameters and _regs
    rsync,  \* a ResetSynchronizer instance: parameters, arst and _regs
    psync,  \* a PulseSynchronizer instance: parameters, toggles and its MultiReg
    bsync,  \* a BusSynchronizer instance: parameters, i, o and its registers
    ebuf,   \* an ElasticBuffer instance: parameters, pointers and memory
    gbox,   \* a Gearbox instance: parameters, pointers and storage
    obs     \* history kept for stating the properties (not part of the circuit)

vars == <<mreg, rsync, psync, bsync, ebuf, gbox, obs>>

(***************************************************************************)
(* Bounds of the model.                                                    *)
(***************************************************************************)
\* largest number of stages n of a MultiReg or ResetSynchronizer
MaxN == 3
\* largest value carried by the signal a MultiReg resynchronises (2 bits)
MaxValue == 3
\* largest number of sync_stages of a PulseSynchronizer
MaxStages == 3
\* largest number of input pulses given to a PulseSynchronizer
MaxPulses == 3
\* largest number of sync_stages of a BusSynchronizer
MaxBusStages == 2
\* largest depth of an ElasticBuffer
MaxDepth == 4
\* largest number of words written to a Gearbox
MaxGearWrites == 6
\* largest magnitude of an argument given to a constructor
MaxArg == 3
\* largest timeout of a BusSynchronizer whose countdown is followed
MaxTimeout == 4
MaxLoads == 2
MaxGearWidth == 6

(***************************************************************************)
(* Bit-level helpers.                                                      *)
(***************************************************************************)
Xor(a, b) == (a + b) % 2

Min(a, b) == IF a < b THEN a ELSE b

Bit(x, k) == (x \div (2 ^ k)) % 2

\* the values of a signal of the given width
Words(width) == 0..(2 ^ width - 1)

\* bits_for(n) for n >= 0: the bits needed to hold n, at least one
RECURSIVE BitsFor(_)
BitsFor(n) == IF n < 2 THEN 1 ELSE 1 + BitsFor(n \div 2)

\* the width of Signal(max=m), which holds 0..m-1
SignalMaxBits(m) == BitsFor(m - 1)

\* the value a signal of the given width keeps of x
Truncate(x, width) == x % (2 ^ width)

\* a pointer that wraps only with its register, whatever the modulo
IncrNoWrap(signal, modulo, width) == signal + 1

\* _incr(signal, modulo), width being len(signal)
_incr(signal, modulo, width) ==
    IF modulo = 2 ^ width
    THEN signal + 1
    ELSE IF signal = modulo - 1 THEN 0 ELSE signal + 1

\* what a register of the given width can capture at the first edge of its
\* clock after its input, driven from another domain, went from old to new:
\* each bit independently the old or the new one
Sampled(old, new, width) ==
    {w \in Words(width) :
        \A k \in 0..(width - 1) : Bit(w, k) \in {Bit(old, k), Bit(new, k)}}

(***************************************************************************)
(* MultiReg                                                                *)
(***************************************************************************)
\* __init__: n registers cdc0..cdc(n-1), each with reset value `reset`
MultiRegRegs(n, reset) == [k \in 1..n |-> reset]

\* a chain in which every stage loads the input directly
MultiRegEdgeParallel(regs, i) == [k \in 1..Len(regs) |-> i]

\* elaborate: for i, o in zip((self.i, *self._regs), self._regs): o.eq(i),
\* all taken at one edge of odomain
MultiRegEdge(regs, i) ==
    [k \in 1..Len(regs) |-> IF k = 1 THEN i ELSE regs[k - 1]]

\* elaborate: m.d.comb += self.o.eq(self._regs[-1])
MultiRegOut(regs) == regs[Len(regs)]

MultiRegNew(n, reset) ==
    [n |-> n, reset |-> reset, regs |-> MultiRegRegs(n, reset)]

\* one edge of odomain, the input carrying the value v
MultiRegClk ==
    \E v \in 0..MaxValue :
        /\ mreg' = [mreg EXCEPT !.regs = MultiRegEdge(mreg.regs, v)]
        /\ obs' = [edges |-> Min(obs.edges + 1, MaxN + 1),
                   hist  |-> SubSeq(<<v>> \o obs.hist, 1,
                                    Min(Len(obs.hist) + 1, MaxN + 1))]
        /\ UNCHANGED <<rsync, psync, bsync, ebuf, gbox>>

\* a register of a clock domain at an edge of its clock: while the reset of
\* the domain is asserted a signal takes its reset value, unless it was
\* declared reset_less
RegisterNext(next, reset, reset_less, rst) ==
    IF rst = 1 /\ ~reset_less THEN reset ELSE next

\* a register of a domain with async_reset=True when the reset of the domain
\* is asserted, without a clock edge
RegisterAsyncReset(value, reset, reset_less) ==
    IF reset_less THEN value ELSE reset

\* __init__(self, i, o, odomain="sync", n=2, reset=0, reset_less=True)
MultiRegDefaultResetLess == TRUE

\* __init__: Signal(self.i.shape(), reset=reset, reset_less=reset_less) for
\* each of the n registers
MultiRegResetNew(n, reset, reset_less) ==
    [n |-> n, reset |-> reset, reset_less |-> reset_less,
     regs |-> MultiRegRegs(n, reset)]

\* a chain whose registers were created without reset_less
MultiRegResetEdgeResettable(m, i, rst) ==
    [k \in 1..Len(m.regs) |->
        RegisterNext(MultiRegEdge(m.regs, i)[k], m.reset, FALSE, rst)]

\* elaborate: m.d[self.odomain] += o.eq(i) for the registers __init__ made,
\* at an edge of odomain, rst being the reset of odomain
MultiRegResetEdge(m, i, rst) ==
    [k \in 1..Len(m.regs) |->
        RegisterNext(MultiRegEdge(m.regs, i)[k], m.reset, m.reset_less, rst)]

\* the reset of odomain rises, odomain having an asynchronous reset
MultiRegAsyncReset(m) ==
    [k \in 1..Len(m.regs) |->
        RegisterAsyncReset(m.regs[k], m.reset, m.reset_less)]

\* one edge of odomain, the input carrying v.  obs.before: the registers
\* before the last step; obs.edged: odomain has had an edge since its reset
\* rose
MultiRegRstClk ==
    \E v \in 0..MaxValue :
        /\ mreg' = [mreg EXCEPT !.regs = MultiRegResetEdge(mreg, v, obs.rst)]
        /\ obs' = [obs EXCEPT !.last = "clk", !.before = mreg.regs, !.v = v,
                              !.edged = (obs.rst = 1)]
        /\ UNCHANGED <<rsync, psync, bsync, ebuf, gbox>>

\* the reset of odomain rises or falls
MultiRegOdomainRst ==
    /\ mreg' = IF obs.rst = 0 /\ obs.async
               THEN [mreg EXCEPT !.regs = MultiRegAsyncReset(mreg)]
               ELSE mreg
    /\ obs' = [obs EXCEPT !.last = "rst", !.before = mreg.regs,
                          !.rst = 1 - @, !.edged = FALSE]
    /\ UNCHANGED <<rsync, psync, bsync, ebuf, gbox>>

\* the reset of another domain rises or falls: no register of the chain
\* belongs to it
MultiRegOtherRst ==
    /\ obs' = [obs EXCEPT !.last = "other", !.before = mreg.regs,
                          !.other_rst = 1 - @]
    /\ UNCHANGED <<mreg, rsync, psync, bsync, ebuf, gbox>>

(***************************************************************************)
(* ResetSynchronizer                                                       *)
(***************************************************************************)
\* __init__: n registers arst0..arst(n-1), each with reset value 1
ResetSyncRegs(n) == [k \in 1..n |-> 1]

\* a reset that only acts at a clock edge leaves the registers as they are
\* when the reset input rises
AsyncResetNone(regs, rst) == regs

\* ClockDomain("_reset_sync", async_reset=True) with
\* ResetSignal("_reset_sync").eq(self.arst): while the reset is high the
\* registers of the domain hold their reset value, without a clock edge
AsyncReset(regs, rst) == IF rst = 1 THEN ResetSyncRegs(Len(regs)) ELSE regs

\* elaborate: for i, o in zip((0, *self._regs), self._regs): o.eq(i), at an
\* edge of the clock of self.domain; the asynchronous reset overrides it
ResetSyncEdge(regs, rst) ==
    AsyncReset([k \in 1..Len(regs) |-> IF k = 1 THEN 0 ELSE regs[k - 1]], rst)

\* the reset of the domain taken from the first stage instead of the last
ResetSyncOutFirst(regs) == regs[1]

\* elaborate: ResetSignal(self.domain).eq(self._regs[-1])
ResetSyncOut(regs) == regs[Len(regs)]

ResetSynchronizerNew(n, arst) ==
    [n |-> n, arst |-> arst, regs |-> ResetSyncRegs(n)]

\* the asynchronous reset input rises
ResetSyncArstRise ==
    /\ rsync.arst = 0
    /\ rsync' = [rsync EXCEPT !.arst = 1, !.regs = AsyncReset(rsync.regs, 1)]
    /\ obs' = [obs EXCEPT !.clkSinceRise = 0]
    /\ UNCHANGED <<mreg, psync, bsync, ebuf, gbox>>

\* the asynchronous reset input falls
ResetSyncArstFall ==
    /\ rsync.arst = 1
    /\ rsync' = [rsync EXCEPT !.arst = 0]
    /\ obs' = [obs EXCEPT !.fell = TRUE, !.lowEdges = 0]
    /\ UNCHANGED <<mreg, psync, bsync, ebuf, gbox>>

\* one edge of the clock of self.domain
ResetSyncClk ==
    /\ rsync' = [rsync EXCEPT !.regs = ResetSyncEdge(rsync.regs, rsync.arst)]
    /\ obs' = [obs EXCEPT
                 !.lowEdges = IF rsync.arst = 0 THEN Min(@ + 1, MaxN + 1) ELSE @,
                 !.clkSinceRise = IF rsync.arst = 1 THEN Min(@ + 1, 1) ELSE @]
    /\ UNCHANGED <<mreg, psync, bsync, ebuf, gbox>>

(***************************************************************************)
(* PulseSynchronizer                                                       *)
(***************************************************************************)
\* __init__ and the signals elaborate creates: itoggle, otoggle_prev and the
\* registers of MultiReg(itoggle, otoggle, odomain, n=sync_stages), all 0
PulseSynchronizerNew(sync_stages) ==
    [sync_stages |-> sync_stages, itoggle |-> 0,
     regs |-> MultiRegRegs(sync_stages, 0), otoggle_prev |-> 0]

\* the output taken from the resynchronised toggle, without edge detection
PulseOutLevel(p) == MultiRegOut(p.regs)

\* elaborate: m.d.comb += self.o.eq(otoggle ^ otoggle_prev), otoggle being
\* the output of the MultiReg
PulseOut(p) == Xor(MultiRegOut(p.regs), p.otoggle_prev)

\* the toggle following the input instead of flipping on it
PulseIEdgeLevel(p, i) == [p EXCEPT !.itoggle = i]

\* elaborate: m.d[self.idomain] += itoggle.eq(itoggle ^ self.i)
PulseIEdge(p, i) == [p EXCEPT !.itoggle = Xor(@, i)]

\* elaborate: m.d[self.odomain] += otoggle_prev.eq(otoggle), together with
\* the edge of the MultiReg, which is clocked by odomain too
PulseOEdge(p) ==
    [p EXCEPT !.regs = MultiRegEdge(@, p.itoggle),
              !.otoggle_prev = MultiRegOut(p.regs)]

\* one edge of idomain, the input i being high or low
PulseSyncIClk ==
    \E i \in 0..1 :
        /\ i = 1 => obs.nin < MaxPulses
        /\ psync' = PulseIEdge(psync, i)
        /\ obs' = IF i = 1
                  THEN [obs EXCEPT !.nin = @ + 1, !.since = 0,
                                   !.groups = IF obs.pending THEN @ ELSE @ + 1,
                                   !.pending = TRUE]
                  ELSE obs
        /\ UNCHANGED <<mreg, rsync, bsync, ebuf, gbox>>

\* one edge of odomain; the logic of odomain sees o as it was before the edge
PulseSyncOClk ==
    /\ psync' = PulseOEdge(psync)
    /\ obs' = [obs EXCEPT !.nout = @ + PulseOut(psync),
                          !.since = Min(@ + 1, psync.sync_stages + 2),
                          !.pending = FALSE]
    /\ UNCHANGED <<mreg, rsync, bsync, ebuf, gbox>>

\* the signals a toggle passes through: itoggle, the registers of the
\* MultiReg and otoggle_prev
PulseChain(p) == <<p.itoggle>> \o p.regs \o <<p.otoggle_prev>>

\* the toggles on their way: the places where two neighbours of the chain
\* differ, the last of which makes o high
PulseInFlight(p) ==
    Cardinality({k \in 1..(Len(PulseChain(p)) - 1) :
                    PulseChain(p)[k] # PulseChain(p)[k + 1]})

\* the output clock faster than the input clock: an edge of idomain comes
\* only after an edge of odomain has followed the previous one.  run: the
\* idomain edges in a row, up to this one, at which i was high
PulseFastIClk ==
    /\ obs.oseen
    /\ \E i \in 0..1 :
        /\ i = 1 => obs.nin < MaxPulses
        /\ psync' = PulseIEdge(psync, i)
        /\ obs' = [obs EXCEPT !.oseen = FALSE,
                              !.nin = @ + i,
                              !.run = IF i = 1 THEN @ + 1 ELSE 0]
    /\ UNCHANGED <<mreg, rsync, bsync, ebuf, gbox>>

\* one edge of odomain; the logic of odomain sees o as it was before the edge
PulseFastOClk ==
    /\ psync' = PulseOEdge(psync)
    /\ obs' = [obs EXCEPT !.oseen = TRUE, !.nout = @ + PulseOut(psync)]
    /\ UNCHANGED <<mreg, rsync, bsync, ebuf, gbox>>

(***************************************************************************)
(* BusSynchronizer                                                         *)
(***************************************************************************)
\* the request crossing with as many stages as the data crossing
BusReqStagesSame(sync_stages) == sync_stages

\* elaborate: sync_io = PulseSynchronizer(idomain, odomain, sync_stages + 1),
\* the extra flop on i->o that avoids the race between data and request
BusReqStages(sync_stages) == sync_stages + 1

\* elaborate: sync_oi = PulseSynchronizer(odomain, idomain, sync_stages)
BusAckStages(sync_stages) == sync_stages

\* elaborate: countdown = Signal(max=self.timeout, reset=self.timeout); the
\* value the register holds when it is loaded with timeout
BusCountdownReload(timeout) == timeout % (2 ^ SignalMaxBits(timeout))

\* __init__ and the signals elaborate creates for width > 1.  seen_buf_i is
\* buf_i as it was at the last edge of odomain.
BusSynchronizerNew(width, sync_stages, timeout) ==
    [width |-> width, sync_stages |-> sync_stages, timeout |-> timeout,
     i |-> 0, o |-> 0,
     start |-> 1,
     countdown |-> IF timeout # 0 THEN BusCountdownReload(timeout) ELSE 0,
     sync_io |-> PulseSynchronizerNew(BusReqStages(sync_stages)),
     sync_oi |-> PulseSynchronizerNew(BusAckStages(sync_stages)),
     buf_i |-> 0, seen_buf_i |-> 0,
     regs |-> MultiRegRegs(sync_stages, 0)]

\* elaborate: ack_i.eq(sync_oi.o)
BusAckI(b) == PulseOut(b.sync_oi)

\* elaborate: ack_o.eq(sync_io.o)
BusAckO(b) == PulseOut(b.sync_io)

\* a request that countdown == 0 forces whatever the timeout
BusReqAlwaysWatchdog(b) ==
    IF b.start = 1 \/ PulseOut(b.sync_oi) = 1 \/ b.countdown = 0 THEN 1 ELSE 0

\* elaborate: req.eq(start | ack_i | (self.timeout != 0 and countdown == 0))
BusReq(b) ==
    IF \/ b.start = 1
       \/ BusAckI(b) = 1
       \/ (b.timeout # 0 /\ b.countdown = 0)
    THEN 1 ELSE 0

\* elaborate: buf_o, the output of MultiReg(buf_i, buf_o, odomain, sync_stages)
BusBufO(b) == MultiRegOut(b.regs)

\* elaborate: with m.If(ack_i | req): countdown.eq(self.timeout)
\*            with m.Else(): countdown.eq(countdown - countdown.bool())
BusCountdownNext(b) ==
    IF b.timeout = 0 THEN b.countdown
    ELSE IF BusAckI(b) = 1 \/ BusReq(b) = 1
         THEN BusCountdownReload(b.timeout)
         ELSE b.countdown - (IF b.countdown # 0 THEN 1 ELSE 0)

\* every assignment of elaborate in idomain: start, countdown, buf_i, the
\* toggle of sync_io (whose input is req) and the output side of sync_oi
BusIEdge(b) ==
    [b EXCEPT !.start = 0,
              !.countdown = BusCountdownNext(b),
              !.buf_i = IF BusAckI(b) = 1 THEN b.i ELSE @,
              !.sync_io = PulseIEdge(@, BusReq(b)),
              !.sync_oi = PulseOEdge(@)]

\* every assignment of elaborate in odomain: o, the output side of sync_io,
\* the toggle of sync_oi (whose input is ack_o) and the data MultiReg, whose
\* first stage captures the value d of buf_i
BusOEdge(b, d) ==
    [b EXCEPT !.o = IF BusAckO(b) = 1 THEN BusBufO(b) ELSE @,
              !.sync_io = PulseOEdge(@),
              !.sync_oi = PulseIEdge(@, BusAckO(b)),
              !.regs = MultiRegEdge(@, d),
              !.seen_buf_i = b.buf_i]

\* one edge of idomain
BusSyncIClk ==
    /\ bsync' = BusIEdge(bsync)
    /\ obs' = [obs EXCEPT !.held = @ \cup {bsync'.buf_i}]
    /\ UNCHANGED <<mreg, rsync, psync, ebuf, gbox>>

\* one edge of odomain
BusSyncOClk ==
    /\ \E d \in Sampled(bsync.seen_buf_i, bsync.buf_i, bsync.width) :
           bsync' = BusOEdge(bsync, d)
    /\ UNCHANGED <<mreg, rsync, psync, ebuf, gbox, obs>>

\* the logic of idomain presents another word on i
BusSyncDrive ==
    /\ \E w \in Words(bsync.width) \ {bsync.i} : bsync' = [bsync EXCEPT !.i = w]
    /\ UNCHANGED <<mreg, rsync, psync, ebuf, gbox, obs>>

\* an edge of odomain at which the request pulse is lost: the output side of
\* sync_io takes the edge, but the logic ack_o drives (the load of o, the
\* input of sync_oi) sees no pulse, so no response follows
BusOEdgeLost(b, d) ==
    [b EXCEPT !.sync_io = PulseOEdge(@),
              !.regs = MultiRegEdge(@, d),
              !.seen_buf_i = b.buf_i]

\* one edge of idomain; iafter counts those after the request was lost
BusLossIClk ==
    /\ bsync' = BusIEdge(bsync)
    /\ obs' = [obs EXCEPT !.started = TRUE,
                          !.iafter = IF obs.lost THEN Min(@ + 1, 2) ELSE @]
    /\ UNCHANGED <<mreg, rsync, psync, ebuf, gbox>>

\* the request in flight is lost at an edge of odomain, once
BusLoseRequest ==
    /\ ~obs.lost
    /\ BusAckO(bsync) = 1
    /\ \E d \in Sampled(bsync.seen_buf_i, bsync.buf_i, bsync.width) :
           bsync' = BusOEdgeLost(bsync, d)
    /\ obs' = [obs EXCEPT !.lost = TRUE, !.o_lost = bsync.o]
    /\ UNCHANGED <<mreg, rsync, psync, ebuf, gbox>>

\* one edge of idomain.  reloaded: ack_i or req was asserted at that edge;
\* prev: countdown as it was before the edge; since: the idomain cycles
\* since the last one in which ack_i or req was asserted (1: the cycle
\* before this one)
BusCountdownIClk ==
    /\ bsync' = BusIEdge(bsync)
    /\ obs' = [started |-> TRUE,
               reloaded |-> (BusAckI(bsync) = 1 \/ BusReq(bsync) = 1),
               prev |-> bsync.countdown,
               since |-> IF BusAckI(bsync) = 1 \/ BusReq(bsync) = 1
                         THEN 1 ELSE Min(obs.since + 1, MaxTimeout + 2)]
    /\ UNCHANGED <<mreg, rsync, psync, ebuf, gbox>>

\* the difference of two pulse counts, kept within -1..2
Clamp(x) == IF x < 0 - 1 THEN 0 - 1 ELSE IF x > 2 THEN 2 ELSE x

\* one edge of idomain.  req_acko: the req pulses so far minus the ack_o
\* pulses; acko_acki: the ack_o pulses minus the ack_i pulses; rounds: the
\* ack_i pulses, up to 2
BusOrderIClk ==
    /\ bsync' = BusIEdge(bsync)
    /\ obs' = [obs EXCEPT !.req_acko = Clamp(@ + BusReq(bsync)),
                          !.acko_acki = Clamp(@ - BusAckI(bsync)),
                          !.rounds = Min(@ + BusAckI(bsync), 2)]
    /\ UNCHANGED <<mreg, rsync, psync, ebuf, gbox>>

\* one edge of odomain
BusOrderOClk ==
    /\ \E d \in Sampled(bsync.seen_buf_i, bsync.buf_i, bsync.width) :
           bsync' = BusOEdge(bsync, d)
    /\ obs' = [obs EXCEPT !.req_acko = Clamp(@ - BusAckO(bsync)),
                          !.acko_acki = Clamp(@ + BusAckO(bsync))]
    /\ UNCHANGED <<mreg, rsync, psync, ebuf, gbox>>

\* one edge of idomain.  last: the domain of the last edge; latched: ack_i
\* was asserted at it; i_then, buf_i_then, o_then: i, buf_i and o as they
\* were before it
BusSampleIClk ==
    /\ obs.loads < MaxLoads
    /\ bsync' = BusIEdge(bsync)
    /\ obs' = [obs EXCEPT !.last = "i", !.latched = (BusAckI(bsync) = 1),
                          !.i_then = bsync.i, !.buf_i_then = bsync.buf_i,
                          !.o_then = bsync.o]
    /\ UNCHANGED <<mreg, rsync, psync, ebuf, gbox>>

\* one edge of odomain.  loaded: ack_o was asserted at it; loads: the edges
\* of odomain at which ack_o was asserted, followed up to MaxLoads of them
BusSampleOClk ==
    /\ obs.loads < MaxLoads
    /\ \E d \in Sampled(bsync.seen_buf_i, bsync.buf_i, bsync.width) :
           bsync' = BusOEdge(bsync, d)
    /\ obs' = [obs EXCEPT !.last = "o", !.loaded = (BusAckO(bsync) = 1),
                          !.buf_i_then = bsync.buf_i, !.o_then = bsync.o,
                          !.loads = @ + BusAckO(bsync)]
    /\ UNCHANGED <<mreg, rsync, psync, ebuf, gbox>>

\* elaborate for width = 1: m.submodules += MultiReg(self.i, self.o,
\* odomain=self.odomain, n=self.sync_stages) and nothing else; o is the
\* output of that MultiReg
BusFastPathNew(sync_stages, timeout) ==
    [width |-> 1, sync_stages |-> sync_stages, timeout |-> timeout,
     i |-> 0, regs |-> MultiRegRegs(sync_stages, 0)]

\* an elaborate without the test of self.width
BusElaborateAlwaysHandshake(width, sync_stages, timeout) ==
    BusSynchronizerNew(width, sync_stages, timeout)

\* elaborate: if self.width == 1: ... return m; otherwise the handshake
BusElaborate(width, sync_stages, timeout) ==
    IF width = 1
    THEN BusFastPathNew(sync_stages, timeout)
    ELSE BusSynchronizerNew(width, sync_stages, timeout)

\* whether elaborate built the request/acknowledge circuit
BusHasHandshake(b) == "sync_io" \in DOMAIN b

\* the value of self.o: the register loaded on ack_o, or the output of the
\* MultiReg of the fast path
BusO(b) == IF BusHasHandshake(b) THEN b.o ELSE MultiRegOut(b.regs)

\* the assignments of idomain of whatever elaborate built: none on the fast
\* path
BusAnyIEdge(b) == IF BusHasHandshake(b) THEN BusIEdge(b) ELSE b

\* the assignments of odomain of whatever elaborate built: on the fast path
\* the MultiReg alone, its first stage capturing the value d of i
BusAnyOEdge(b, d) ==
    IF BusHasHandshake(b)
    THEN BusOEdge(b, b.buf_i)
    ELSE [b EXCEPT !.regs = MultiRegEdge(@, d)]

\* a BusSynchronizer of width 1 and a MultiReg(i, o, odomain, n=sync_stages)
\* side by side on the same input.  One edge of idomain, after which the
\* logic of idomain presents w on i
BusFastIClk ==
    /\ \E w \in Words(1) : bsync' = [BusAnyIEdge(bsync) EXCEPT !.i = w]
    /\ UNCHANGED <<mreg, rsync, psync, ebuf, gbox, obs>>

\* one edge of odomain, common to both; the first stage of each captures the
\* same value d, i as it is or, if it changed since the last edge, as it was
BusFastOClk ==
    /\ \E d \in {obs.seen_i, bsync.i} :
           /\ bsync' = BusAnyOEdge(bsync, d)
           /\ mreg' = [mreg EXCEPT !.regs = MultiRegEdge(mreg.regs, d)]
    /\ obs' = [seen_i |-> bsync.i]
    /\ UNCHANGED <<rsync, psync, ebuf, gbox>>

(***************************************************************************)
(* ElasticBuffer                                                           *)
(***************************************************************************)
\* the write pointer starting where the read pointer starts
ElasticWptrResetZero(depth) == 0

\* elaborate: wptr = Signal(max=self.depth, reset=self.depth // 2)
ElasticWptrReset(depth) == Truncate(depth \div 2, SignalMaxBits(depth))

\* Memory(width, depth): every location 0 until it is written
MemoryNew(depth) == [a \in 0..(depth - 1) |-> 0]

\* the write port of idomain, enabled: the location addr takes data at the
\* edge of idomain
MemoryWrite(storage, addr, data) ==
    IF addr \in DOMAIN storage THEN [storage EXCEPT ![addr] = data] ELSE storage

\* the read port of odomain: its data output takes the location addr at the
\* edge of odomain
MemoryRead(storage, addr) ==
    IF addr \in DOMAIN storage THEN storage[addr] ELSE 0

\* __init__ and the signals elaborate creates: wptr, rptr, the memory and
\* the data register of its read port, which drives o
ElasticBufferNew(width, depth) ==
    [width |-> width, depth |-> depth,
     wptr |-> ElasticWptrReset(depth), rptr |-> 0,
     storage |-> MemoryNew(depth), o |-> 0]

\* elaborate, idomain: wptr.eq(_incr(wptr, self.depth)) and the write port
\* with en = 1, addr = wptr, data = i
ElasticIEdge(e, i) ==
    [e EXCEPT !.wptr = Truncate(_incr(@, e.depth, SignalMaxBits(e.depth)),
                                SignalMaxBits(e.depth)),
              !.storage = MemoryWrite(@, e.wptr, i)]

\* elaborate, odomain: rptr.eq(_incr(rptr, self.depth)) and the read port
\* with addr = rptr, whose data drives o
ElasticOEdge(e) ==
    [e EXCEPT !.rptr = Truncate(_incr(@, e.depth, SignalMaxBits(e.depth)),
                                SignalMaxBits(e.depth)),
              !.o = MemoryRead(e.storage, e.rptr)]

\* one edge of idomain, i carrying v
ElasticIClk ==
    /\ obs.next_clk = "i"
    /\ \E v \in Words(ebuf.width) :
        /\ ebuf' = ElasticIEdge(ebuf, v)
        /\ obs' = [obs EXCEPT
                     !.next_clk = "o",
                     !.lead = @ + 1,
                     !.ihist = SubSeq(<<v>> \o @, 1, Min(Len(@) + 1, MaxDepth)),
                     !.overrun = @ \/ obs.fresh[ebuf.wptr],
                     !.fresh = [@ EXCEPT ![ebuf.wptr] = TRUE]]
    /\ UNCHANGED <<mreg, rsync, psync, bsync, gbox>>

\* one edge of odomain; start-up is over once depth // 2 locations were read
ElasticOClk ==
    /\ obs.next_clk = "o"
    /\ ebuf' = ElasticOEdge(ebuf)
    /\ obs' = [obs EXCEPT
                 !.next_clk = "i",
                 !.lead = @ - 1,
                 !.nr = Min(@ + 1, MaxDepth),
                 !.underrun = @ \/ (obs.nr >= ebuf.depth \div 2
                                    /\ ~obs.fresh[ebuf.rptr]),
                 !.fresh = [@ EXCEPT ![ebuf.rptr] = FALSE]]
    /\ UNCHANGED <<mreg, rsync, psync, bsync, gbox>>

\* one edge of idomain with the clocks unrelated, i carrying v.  last: the
\* domain of the last edge; then: the buffer as it was before it; i: the
\* value of i at it; lead: the edges of idomain so far minus those of odomain
ElasticFreeIClk ==
    /\ obs.lead < MaxDepth
    /\ \E v \in Words(ebuf.width) :
        /\ ebuf' = ElasticIEdge(ebuf, v)
        /\ obs' = [last |-> "i", then |-> ebuf, i |-> v, lead |-> obs.lead + 1]
    /\ UNCHANGED <<mreg, rsync, psync, bsync, gbox>>

\* one edge of odomain with the clocks unrelated
ElasticFreeOClk ==
    /\ obs.lead > -MaxDepth
    /\ ebuf' = ElasticOEdge(ebuf)
    /\ obs' = [last |-> "o", then |-> ebuf, i |-> obs.i, lead |-> obs.lead - 1]
    /\ UNCHANGED <<mreg, rsync, psync, bsync, gbox>>

(***************************************************************************)
(* Gearbox                                                                 *)
(***************************************************************************)
\* math.gcd
RECURSIVE Gcd(_, _)
Gcd(a, b) == IF b = 0 THEN a ELSE Gcd(b, a % b)

\* __init__: iwidth * owidth // gcd(iwidth, owidth)
GearboxLcm(iwidth, owidth) == (iwidth * owidth) \div Gcd(iwidth, owidth)

\* __init__: while storagesize // width < 4: storagesize *= 2
RECURSIVE GearboxGrow(_, _)
GearboxGrow(storagesize, width) ==
    IF storagesize \div width < 4
    THEN GearboxGrow(storagesize * 2, width)
    ELSE storagesize

\* the least common multiple doubled once
GearboxStoragesizeDoubled(iwidth, owidth) == GearboxLcm(iwidth, owidth) * 2

\* __init__: the lcm, grown for the input chunks and then for the output
\* chunks
GearboxStoragesize(iwidth, owidth) ==
    GearboxGrow(GearboxGrow(GearboxLcm(iwidth, owidth), iwidth), owidth)

\* the output pointer starting where the input pointer starts
GearboxOptrResetZero(ichunks, ochunks) == 0

\* the input pointer at the midpoint when the input side has fewer chunks
GearboxIptrResetSmaller(ichunks, ochunks) ==
    IF ichunks < ochunks THEN ichunks \div 2 ELSE 0

\* elaborate: iptr = Signal(max=self._ichunks - 1,
\*                          reset=(self._ichunks // 2 if i_faster else 0))
GearboxIptrReset(ichunks, ochunks) ==
    Truncate(IF ichunks > ochunks THEN ichunks \div 2 ELSE 0,
             SignalMaxBits(ichunks - 1))

\* elaborate: optr = Signal(max=self._ochunks - 1,
\*                          reset=(0 if i_faster else self._ochunks // 2))
GearboxOptrReset(ichunks, ochunks) ==
    Truncate(IF ichunks > ochunks THEN 0 ELSE ochunks \div 2,
             SignalMaxBits(ochunks - 1))

\* __init__ and the signals elaborate creates; storage is kept bit by bit
GearboxNew(iwidth, owidth) ==
    LET storagesize == GearboxStoragesize(iwidth, owidth)
        ichunks == storagesize \div iwidth
        ochunks == storagesize \div owidth
    IN  [iwidth |-> iwidth, owidth |-> owidth,
         storagesize |-> storagesize, ichunks |-> ichunks, ochunks |-> ochunks,
         storage |-> [k \in 0..(storagesize - 1) |-> 0],
         iptr |-> GearboxIptrReset(ichunks, ochunks),
         optr |-> GearboxOptrReset(ichunks, ochunks),
         o |-> 0]

\* storage[lo : lo + width] as a number, lowest bit first
Slice(storage, lo, width) ==
    LET RECURSIVE Sum(_)
        Sum(k) == IF k = width THEN 0 ELSE storage[lo + k] * (2 ^ k) + Sum(k + 1)
    IN  Sum(0)

\* storage[lo : lo + width].eq(data)
SliceAssign(storage, lo, width, data) ==
    [k \in DOMAIN storage |->
        IF lo <= k /\ k < lo + width THEN Bit(data, k - lo) ELSE storage[k]]

\* elaborate, idomain: iptr.eq(_incr(iptr, self._storagesize)) and
\* with m.Switch(iptr): with m.Case(n): storage[n*iwidth:(n+1)*iwidth].eq(i)
GearboxIEdge(g, i) ==
    [g EXCEPT !.iptr = Truncate(_incr(@, g.storagesize, SignalMaxBits(g.ichunks - 1)),
                                SignalMaxBits(g.ichunks - 1)),
              !.storage = IF g.iptr < g.ichunks
                          THEN SliceAssign(@, g.iptr * g.iwidth, g.iwidth, i)
                          ELSE @]

\* elaborate, odomain: optr.eq(_incr(optr, self._storagesize)) and
\* with m.Switch(optr): with m.Case(n): o.eq(storage[n*owidth:(n+1)*owidth])
GearboxOEdge(g) ==
    [g EXCEPT !.optr = Truncate(_incr(@, g.storagesize, SignalMaxBits(g.ochunks - 1)),
                                SignalMaxBits(g.ochunks - 1)),
              !.o = IF g.optr < g.ochunks
                    THEN Slice(g.storage, g.optr * g.owidth, g.owidth)
                    ELSE @]

\* the words presented on i: two bit patterns whose chunks all differ
GearboxInputs(iwidth) == {Truncate(27, iwidth), Truncate(228, iwidth)}

\* the clocks are locked: iwidth // owidth edges of odomain for every edge of
\* idomain; obs.phase counts the edges of odomain since the last of idomain

\* one edge of idomain, i carrying v
GearboxIClk ==
    /\ obs.phase = gbox.iwidth \div gbox.owidth
    /\ Len(obs.written) < MaxGearWrites
    /\ \E v \in GearboxInputs(gbox.iwidth) :
        /\ gbox' = GearboxIEdge(gbox, v)
        /\ obs' = [obs EXCEPT !.phase = 0, !.written = Append(@, v)]
    /\ UNCHANGED <<mreg, rsync, psync, bsync, ebuf>>

\* one edge of odomain; start-up is over once the output pointer has gone
\* from its reset value round to 0
GearboxOClk ==
    /\ obs.phase < gbox.iwidth \div gbox.owidth
    /\ gbox' = GearboxOEdge(gbox)
    /\ obs' = [obs EXCEPT
                 !.phase = @ + 1,
                 !.startup = IF @ > 0 THEN @ - 1 ELSE 0,
                 !.emitted = IF obs.startup = 0 THEN Append(@, gbox'.o) ELSE @]
    /\ UNCHANGED <<mreg, rsync, psync, bsync, ebuf>>

\* the two clocks running freely.  One edge of idomain, i carrying v;
\* iprev is iptr as it was before the last edge of idomain
GearboxFreeIClk ==
    /\ \E v \in GearboxInputs(gbox.iwidth) : gbox' = GearboxIEdge(gbox, v)
    /\ obs' = [obs EXCEPT !.imoved = TRUE, !.iprev = gbox.iptr]
    /\ UNCHANGED <<mreg, rsync, psync, bsync, ebuf>>

\* one edge of odomain; oprev is optr as it was before the last edge of
\* odomain
GearboxFreeOClk ==
    /\ gbox' = GearboxOEdge(gbox)
    /\ obs' = [obs EXCEPT !.omoved = TRUE, !.oprev = gbox.optr]
    /\ UNCHANGED <<mreg, rsync, psync, bsync, ebuf>>

\* __init__, statement by statement.  obs holds its locals: pc, the
\* statement that runs next, and storagesize; doublings counts the
\* executions of storagesize *= 2.

\* storagesize = iwidth * owidth // gcd(iwidth, owidth)
GearboxInitLcm ==
    /\ obs.pc = "lcm"
    /\ obs' = [obs EXCEPT !.pc = "grow_i",
                          !.storagesize = GearboxLcm(obs.iwidth, obs.owidth)]
    /\ UNCHANGED <<mreg, rsync, psync, bsync, ebuf, gbox>>

\* while storagesize // iwidth < 4: storagesize *= 2, one test of the
\* condition
GearboxInitGrowI ==
    /\ obs.pc = "grow_i"
    /\ obs' = IF obs.storagesize \div obs.iwidth < 4
              THEN [obs EXCEPT !.storagesize = @ * 2, !.doublings = @ + 1]
              ELSE [obs EXCEPT !.pc = "grow_o"]
    /\ UNCHANGED <<mreg, rsync, psync, bsync, ebuf, gbox>>

\* while storagesize // owidth < 4: storagesize *= 2, one test of the
\* condition
GearboxInitGrowO ==
    /\ obs.pc = "grow_o"
    /\ obs' = IF obs.storagesize \div obs.owidth < 4
              THEN [obs EXCEPT !.storagesize = @ * 2, !.doublings = @ + 1]
              ELSE [obs EXCEPT !.pc = "chunks"]
    /\ UNCHANGED <<mreg, rsync, psync, bsync, ebuf, gbox>>

\* self._ichunks, self._ochunks and the two assertions; the Gearbox exists
\* once they have passed
GearboxInitChunks ==
    /\ obs.pc = "chunks"
    /\ LET ichunks == obs.storagesize \div obs.iwidth
           ochunks == obs.storagesize \div obs.owidth
       IN  IF /\ ichunks * obs.iwidth = obs.storagesize
              /\ ochunks * obs.owidth = obs.storagesize
           THEN /\ obs' = [obs EXCEPT !.pc = "done"]
                /\ gbox' = GearboxNew(obs.iwidth, obs.owidth)
           ELSE /\ obs' = [obs EXCEPT !.pc = "AssertionError"]
                /\ UNCHANGED gbox
    /\ UNCHANGED <<mreg, rsync, psync, bsync, ebuf>>

(***************************************************************************)
(* Constructors.  An argument is a Python value: int tells whether         *)
(* isinstance(v, int) holds and val is its magnitude.  A constructor is    *)
(* the sequence of its statements: a check raises TypeError when its       *)
(* condition holds, an allocation creates `count` signals.                 *)
(***************************************************************************)
PyInt(k) == [int |-> TRUE, val |-> k]
PyOther(k) == [int |-> FALSE, val |-> k]

\* `not isinstance(v, int) or v < lo`
NotIntOrBelow(v, lo) == ~v.int \/ v.val < lo

Check(cond) == [check |-> TRUE, cond |-> cond, count |-> 0]
Alloc(count) == [check |-> FALSE, cond |-> FALSE, count |-> count]

\* the statements run in order; a raise ends the call
RECURSIVE RunInit(_, _)
RunInit(stmts, signals) ==
    IF stmts = <<>> THEN [raised |-> FALSE, signals |-> signals]
    ELSE IF Head(stmts).check /\ Head(stmts).cond
         THEN [raised |-> TRUE, signals |-> signals]
         ELSE RunInit(Tail(stmts), signals + Head(stmts).count)

\* MultiReg.__init__: the check of n, then the n registers
MultiRegInit(n) ==
    RunInit(<<Check(NotIntOrBelow(n, 1)), Alloc(n.val)>>, 0)

\* ResetSynchronizer.__init__: the check of n, then the n registers
ResetSynchronizerInit(n) ==
    RunInit(<<Check(NotIntOrBelow(n, 1)), Alloc(n.val)>>, 0)

\* PulseSynchronizer.__init__: the check of sync_stages, then i and o
PulseSynchronizerInit(sync_stages) ==
    RunInit(<<Check(NotIntOrBelow(sync_stages, 1)), Alloc(1), Alloc(1)>>, 0)

\* a constructor that allocates i and o before it checks timeout
BusSynchronizerInitLate(width, sync_stages, timeout) ==
    RunInit(<<Check(NotIntOrBelow(width, 1)),
              Check(NotIntOrBelow(sync_stages, 2)),
              Alloc(1), Alloc(1),
              Check(NotIntOrBelow(timeout, 0))>>, 0)

\* BusSynchronizer.__init__: the checks of width, sync_stages and timeout,
\* then i and o
BusSynchronizerInit(width, sync_stages, timeout) ==
    RunInit(<<Check(NotIntOrBelow(width, 1)),
              Check(NotIntOrBelow(sync_stages, 2)),
              Check(NotIntOrBelow(timeout, 0)),
              Alloc(1), Alloc(1)>>, 0)

\* ElasticBuffer.__init__: the checks of width and depth (depth <= 1), then
\* i and o
ElasticBufferInit(width, depth) ==
    RunInit(<<Check(NotIntOrBelow(width, 1)),
              Check(~depth.int \/ depth.val <= 1),
              Alloc(1), Alloc(1)>>, 0)

\* Gearbox.__init__: the checks of iwidth and owidth, then i and o
GearboxInit(iwidth, owidth) ==
    RunInit(<<Check(NotIntOrBelow(iwidth, 1)),
              Check(NotIntOrBelow(owidth, 1)),
              Alloc(1), Alloc(1)>>, 0)

\* the values given to a constructor: the integers from -1 to MaxArg and, for
\* each, a value of another type (a float, a string) of that magnitude
ArgValues ==
    {PyInt(k) : k \in (0 - 1)..MaxArg} \cup {PyOther(k) : k \in (0 - 1)..MaxArg}

\* the outcome of one constructor call, with the call itself
Called(class, args, result) ==
    [class |-> class, args |-> args,
     raised |-> result.raised, signals |-> result.signals]

NewMultiReg ==
    /\ \E n \in ArgValues :
           obs' = Called("MultiReg", <<n>>, MultiRegInit(n))
    /\ UNCHANGED <<mreg, rsync, psync, bsync, ebuf, gbox>>

NewResetSynchronizer ==
    /\ \E n \in ArgValues :
           obs' = Called("ResetSynchronizer", <<n>>, ResetSynchronizerInit(n))
    /\ UNCHANGED <<mreg, rsync, psync, bsync, ebuf, gbox>>

NewPulseSynchronizer ==
    /\ \E sync_stages \in ArgValues :
           obs' = Called("PulseSynchronizer", <<sync_stages>>,
                         PulseSynchronizerInit(sync_stages))
    /\ UNCHANGED <<mreg, rsync, psync, bsync, ebuf, gbox>>

NewBusSynchronizer ==
    /\ \E width \in ArgValues, sync_stages \in ArgValues, timeout \in ArgValues :
           obs' = Called("BusSynchronizer", <<width, sync_stages, timeout>>,
                         BusSynchronizerInit(width, sync_stages, timeout))
    /\ UNCHANGED <<mreg, rsync, psync, bsync, ebuf, gbox>>

NewElasticBuffer ==
    /\ \E width \in ArgValues, depth \in ArgValues :
           obs' = Called("ElasticBuffer", <<width, depth>>,
                         ElasticBufferInit(width, depth))
    /\ UNCHANGED <<mreg, rsync, psync, bsync, ebuf, gbox>>

NewGearbox ==
    /\ \E iwidth \in ArgValues, owidth \in ArgValues :
           obs' = Called("Gearbox", <<iwidth, owidth>>,
                         GearboxInit(iwidth, owidth))
    /\ UNCHANGED <<mreg, rsync, psync, bsync, ebuf, gbox>>

(***************************************************************************)
(* Elaboration.  A platform is None or an object with some attributes;     *)
(* elaborate(platform) of a MultiReg or a ResetSynchronizer gives one      *)
(* fragment: the value of the platform method called with self (override,  *)
(* method, self) or the generic chain of registers.  The sub-generators a  *)
(* module holds are elaborated with the same platform.                     *)
(***************************************************************************)
PlatformNone == [is_none |-> TRUE, attrs |-> {}]
PlatformWith(attrs) == [is_none |-> FALSE, attrs |-> attrs]

\* hasattr(platform, name)
HasAttr(platform, name) == ~platform.is_none /\ name \in platform.attrs

Overridden(method, self) ==
    [override |-> TRUE, method |-> method, self |-> self, chain |-> <<>>]

Generic(self) ==
    [override |-> FALSE, method |-> "", self |-> self, chain |-> self.regs]

\* an elaborate that never asks the platform
MultiRegElaborateGeneric(self, platform) == Generic(self)

\* MultiReg.elaborate: if hasattr(platform, "get_multi_reg"):
\*     return platform.get_multi_reg(self); otherwise the chain
MultiRegElaborate(self, platform) ==
    IF HasAttr(platform, "get_multi_reg")
    THEN Overridden("get_multi_reg", self)
    ELSE Generic(self)

\* ResetSynchronizer.elaborate: if hasattr(platform, "get_reset_sync"):
\*     return platform.get_reset_sync(self); otherwise the chain
ResetSynchronizerElaborate(self, platform) ==
    IF HasAttr(platform, "get_reset_sync")
    THEN Overridden("get_reset_sync", self)
    ELSE Generic(self)

\* PulseSynchronizer.elaborate: m.submodules.mreg = MultiReg(itoggle,
\* otoggle, odomain=self.odomain, n=self.sync_stages)
PulseSynchronizerElaborate(sync_stages, platform) ==
    <<MultiRegElaborate(MultiRegNew(sync_stages, 0), platform)>>

\* BusSynchronizer.elaborate: the MultiReg of the fast path, or sync_io,
\* sync_oi and sync_data
BusSynchronizerElaborate(width, sync_stages, platform) ==
    IF width = 1
    THEN <<MultiRegElaborate(MultiRegNew(sync_stages, 0), platform)>>
    ELSE PulseSynchronizerElaborate(BusReqStages(sync_stages), platform)
         \o PulseSynchronizerElaborate(BusAckStages(sync_stages), platform)
         \o <<MultiRegElaborate(MultiRegNew(sync_stages, 0), platform)>>

\* the platforms a design is elaborated for
Platforms ==
    {PlatformNone} \cup
    {PlatformWith(attrs) : attrs \in SUBSET {"get_multi_reg", "get_reset_sync", "build"}}

\* the outcome of one elaboration: the generator, its parameters, the
\* platform and the fragments of its crossings
Elaborated(class, params, platform, fragments) ==
    [class |-> class, params |-> params, platform |-> platform,
     fragments |-> fragments]

ElaborateMultiReg ==
    /\ \E n \in 1..MaxN, reset \in 0..1, platform \in Platforms :
           obs' = Elaborated("MultiReg", <<n, reset>>, platform,
                             <<MultiRegElaborate(MultiRegNew(n, reset), platform)>>)
    /\ UNCHANGED <<mreg, rsync, psync, bsync, ebuf, gbox>>

ElaborateResetSynchronizer ==
    /\ \E n \in 1..MaxN, platform \in Platforms :
           obs' = Elaborated("ResetSynchronizer", <<n>>, platform,
                             <<ResetSynchronizerElaborate(ResetSynchronizerNew(n, 0),
                                                          platform)>>)
    /\ UNCHANGED <<mreg, rsync, psync, bsync, ebuf, gbox>>

ElaboratePulseSynchronizer ==
    /\ \E sync_stages \in 1..MaxStages, platform \in Platforms :
           obs' = Elaborated("PulseSynchronizer", <<sync_stages>>, platform,
                             PulseSynchronizerElaborate(sync_stages, platform))
    /\ UNCHANGED <<mreg, rsync, psync, bsync, ebuf, gbox>>

ElaborateBusSynchronizer ==
    /\ \E width \in 1..2, sync_stages \in 2..MaxStages, platform \in Platforms :
           obs' = Elaborated("BusSynchronizer", <<width, sync_stages>>, platform,
                             BusSynchronizerElaborate(width, sync_stages, platform))
    /\ UNCHANGED <<mreg, rsync, psync, bsync, ebuf, gbox>>

(***************************************************************************)
(* Specifications: one per primitive.  The instances of the other          *)
(* primitives are constructed with their default parameters and are not    *)
(* clocked.                                                                *)
(***************************************************************************)
MultiRegIdle == mreg = MultiRegNew(2, 0)
ResetSyncIdle == rsync = ResetSynchronizerNew(2, 0)
PulseSyncIdle == psync = PulseSynchronizerNew(2)
BusSyncIdle == bsync = BusSynchronizerNew(2, 2, 127)
ElasticIdle == ebuf = ElasticBufferNew(1, 2)
GearboxIdle == gbox = GearboxNew(1, 1)

InitMultiReg ==
    /\ \E n \in 1..MaxN, reset \in 0..1 : mreg = MultiRegNew(n, reset)
    /\ obs = [edges |-> 0, hist |-> <<>>]
    /\ ResetSyncIdle /\ PulseSyncIdle /\ BusSyncIdle /\ ElasticIdle /\ GearboxIdle

NextMultiReg == MultiRegClk

SpecMultiReg == InitMultiReg /\ [][NextMultiReg]_vars

\* a MultiReg with any reset value and either reset_less, in an odomain with
\* a synchronous or an asynchronous reset (async), beside another domain
InitMultiRegReset ==
    /\ \E n \in 1..MaxN, reset \in 0..1, reset_less \in BOOLEAN, async \in BOOLEAN :
           /\ mreg = MultiRegResetNew(n, reset, reset_less)
           /\ obs = [rst |-> 0, other_rst |-> 0, async |-> async, last |-> "init",
                     before |-> mreg.regs, v |-> 0, edged |-> FALSE]
    /\ ResetSyncIdle /\ PulseSyncIdle /\ BusSyncIdle /\ ElasticIdle /\ GearboxIdle

NextMultiRegReset == MultiRegRstClk \/ MultiRegOdomainRst \/ MultiRegOtherRst

SpecMultiRegReset == InitMultiRegReset /\ [][NextMultiRegReset]_vars

InitResetSync ==
    /\ \E n \in 1..MaxN, arst \in 0..1 : rsync = ResetSynchronizerNew(n, arst)
    /\ obs = [fell |-> FALSE, lowEdges |-> 0, clkSinceRise |-> 0]
    /\ MultiRegIdle /\ PulseSyncIdle /\ BusSyncIdle /\ ElasticIdle /\ GearboxIdle

NextResetSync == ResetSyncArstRise \/ ResetSyncArstFall \/ ResetSyncClk

SpecResetSync == InitResetSync /\ [][NextResetSync]_vars

\* nin, nout: the idomain cycles in which i was sampled high and the odomain
\* cycles in which o was high; since: the odomain edges since the last input
\* pulse; groups: the runs of input pulses with no odomain edge in between
InitPulseSync ==
    /\ \E sync_stages \in 1..MaxStages : psync = PulseSynchronizerNew(sync_stages)
    /\ obs = [nin |-> 0, nout |-> 0, since |-> 0, groups |-> 0, pending |-> FALSE]
    /\ MultiRegIdle /\ ResetSyncIdle /\ BusSyncIdle /\ ElasticIdle /\ GearboxIdle

NextPulseSync == PulseSyncIClk \/ PulseSyncOClk

SpecPulseSync == InitPulseSync /\ [][NextPulseSync]_vars

\* the output clock faster than the input clock and ticking forever.
\* oseen: odomain has had an edge since the last edge of idomain
InitPulseFast ==
    /\ \E sync_stages \in 1..MaxStages : psync = PulseSynchronizerNew(sync_stages)
    /\ \E oseen \in BOOLEAN : obs = [nin |-> 0, nout |-> 0, oseen |-> oseen, run |-> 0]
    /\ MultiRegIdle /\ ResetSyncIdle /\ BusSyncIdle /\ ElasticIdle /\ GearboxIdle

NextPulseFast == PulseFastIClk \/ PulseFastOClk

FairSpecPulseFast ==
    InitPulseFast /\ [][NextPulseFast]_vars /\ WF_vars(PulseFastOClk)

\* the parameters a BusSynchronizer is constructed with
BusWidths == {2, 3}
BusStages == 2..MaxBusStages
BusTimeouts == {0, 3}

\* held: the words buf_i has held at some edge of idomain
InitBusSyncWith(widths, stages, timeouts) ==
    /\ \E width \in widths, sync_stages \in stages, timeout \in timeouts :
           bsync = BusSynchronizerNew(width, sync_stages, timeout)
    /\ obs = [held |-> {0}]
    /\ MultiRegIdle /\ ResetSyncIdle /\ PulseSyncIdle /\ ElasticIdle /\ GearboxIdle

NextBusSync == BusSyncIClk \/ BusSyncOClk \/ BusSyncDrive

\* the watchdog disabled (timeout = 0)
InitBusSync == InitBusSyncWith(BusWidths, BusStages, {0})

SpecBusSync == InitBusSync /\ [][NextBusSync]_vars

\* with and without the watchdog, both clocks ticking forever
InitBusSyncWatchdog == InitBusSyncWith({2}, {2}, BusTimeouts)

FairSpecBusSync ==
    /\ InitBusSyncWatchdog /\ [][NextBusSync]_vars
    /\ WF_vars(BusSyncIClk) /\ WF_vars(BusSyncOClk)

\* the watchdog disabled, and a request that may be lost.  started: idomain
\* has had an edge; lost: the request was lost, o being o_lost then
InitBusLoss ==
    /\ \E sync_stages \in 2..MaxBusStages : bsync = BusElaborate(2, sync_stages, 0)
    /\ obs = [started |-> FALSE, lost |-> FALSE, o_lost |-> 0, iafter |-> 0]
    /\ MultiRegIdle /\ ResetSyncIdle /\ PulseSyncIdle /\ ElasticIdle /\ GearboxIdle

NextBusLoss == BusLossIClk \/ BusSyncOClk \/ BusSyncDrive \/ BusLoseRequest

SpecBusLoss == InitBusLoss /\ [][NextBusLoss]_vars

\* the watchdog with every timeout from 1 to MaxTimeout, i holding a word
InitBusCountdown ==
    /\ \E timeout \in 1..MaxTimeout, w \in Words(2) :
           bsync = [BusElaborate(2, 2, timeout) EXCEPT !.i = w]
    /\ obs = [started |-> FALSE, reloaded |-> FALSE, prev |-> bsync.countdown,
              since |-> 0]
    /\ MultiRegIdle /\ ResetSyncIdle /\ PulseSyncIdle /\ ElasticIdle /\ GearboxIdle

NextBusCountdown == BusCountdownIClk \/ BusSyncOClk

SpecBusCountdown == InitBusCountdown /\ [][NextBusCountdown]_vars

\* the watchdog disabled, the pulses of the handshake counted
InitBusOrder ==
    /\ \E sync_stages \in 2..MaxBusStages : bsync = BusElaborate(2, sync_stages, 0)
    /\ obs = [req_acko |-> 0, acko_acki |-> 0, rounds |-> 0]
    /\ MultiRegIdle /\ ResetSyncIdle /\ PulseSyncIdle /\ ElasticIdle /\ GearboxIdle

NextBusOrder == BusOrderIClk \/ BusOrderOClk \/ BusSyncDrive

SpecBusOrder == InitBusOrder /\ [][NextBusOrder]_vars

\* with and without the watchdog, the edges at which buf_i and o are loaded
\* recorded
BusSampleTimeouts == {0, 3}

InitBusSample ==
    /\ \E timeout \in BusSampleTimeouts : bsync = BusElaborate(2, 2, timeout)
    /\ obs = [last |-> "none", latched |-> FALSE, loaded |-> FALSE, loads |-> 0,
              i_then |-> 0, buf_i_then |-> 0, o_then |-> 0]
    /\ MultiRegIdle /\ ResetSyncIdle /\ PulseSyncIdle /\ ElasticIdle /\ GearboxIdle

NextBusSample == BusSampleIClk \/ BusSampleOClk \/ BusSyncDrive

SpecBusSample == InitBusSample /\ [][NextBusSample]_vars

\* width 1 with any sync_stages and timeout, beside a MultiReg of as many
\* stages; seen_i: i as it was at the last edge of odomain
BusFastTimeouts == {0, 3, 127}

InitBusFast ==
    /\ \E sync_stages \in 2..MaxStages, timeout \in BusFastTimeouts :
           /\ bsync = BusElaborate(1, sync_stages, timeout)
           /\ mreg = MultiRegNew(sync_stages, 0)
    /\ obs = [seen_i |-> 0]
    /\ ResetSyncIdle /\ PulseSyncIdle /\ ElasticIdle /\ GearboxIdle

NextBusFast == BusFastIClk \/ BusFastOClk

SpecBusFast == InitBusFast /\ [][NextBusFast]_vars

\* the parameters an ElasticBuffer is constructed with
ElasticWidths == {1}
ElasticDepths == 2..MaxDepth

\* next_clk: the domain whose edge comes next; the two clocks have the same
\* frequency, so their edges alternate, either one coming first.
\* nr: the edges of odomain so far; lead: the edges of idomain so far minus
\* those of odomain; ihist: the values of i at the last edges of idomain, the
\* latest first; fresh: the locations written and not read since.
InitElastic ==
    /\ \E width \in ElasticWidths, depth \in ElasticDepths :
           /\ ebuf = ElasticBufferNew(width, depth)
           /\ \E first \in {"i", "o"} :
                  obs = [next_clk |-> first, nr |-> 0, lead |-> 0, ihist |-> <<>>,
                         fresh |-> [a \in 0..(depth - 1) |-> FALSE],
                         overrun |-> FALSE, underrun |-> FALSE]
    /\ MultiRegIdle /\ ResetSyncIdle /\ PulseSyncIdle /\ BusSyncIdle /\ GearboxIdle

NextElastic == ElasticIClk \/ ElasticOClk

SpecElastic == InitElastic /\ [][NextElastic]_vars

\* the clocks unrelated: any edge may come next, until one domain is
\* MaxDepth edges ahead of the other
InitElasticFree ==
    /\ \E width \in ElasticWidths, depth \in ElasticDepths :
           /\ ebuf = ElasticBufferNew(width, depth)
           /\ obs = [last |-> "none", then |-> ebuf, i |-> 0, lead |-> 0]
    /\ MultiRegIdle /\ ResetSyncIdle /\ PulseSyncIdle /\ BusSyncIdle /\ GearboxIdle

NextElasticFree == ElasticFreeIClk \/ ElasticFreeOClk

SpecElasticFree == InitElasticFree /\ [][NextElasticFree]_vars

\* the widths a Gearbox is constructed with: the output rate a whole
\* multiple of the input rate
GearboxShapes == {<<8, 2>>, <<4, 2>>, <<4, 1>>}

\* phase: any offset between the two clocks; written: the words written so
\* far; emitted: the values of o after each edge of odomain past start-up
InitGearbox ==
    /\ \E shape \in GearboxShapes :
           /\ gbox = GearboxNew(shape[1], shape[2])
           /\ \E phase \in 0..(shape[1] \div shape[2]) :
                  obs = [phase |-> phase, written |-> <<>>, emitted |-> <<>>,
                         startup |-> gbox.ochunks - gbox.optr]
    /\ MultiRegIdle /\ ResetSyncIdle /\ PulseSyncIdle /\ BusSyncIdle /\ ElasticIdle

NextGearbox == GearboxIClk \/ GearboxOClk

SpecGearbox == InitGearbox /\ [][NextGearbox]_vars

\* Gearboxes of any widths, among them widths whose chunk counts are not
\* powers of two, with free-running clocks
GearboxAnyShapes == {<<8, 2>>, <<3, 2>>, <<2, 3>>, <<4, 5>>}

InitGearboxAny ==
    /\ \E shape \in GearboxAnyShapes : gbox = GearboxNew(shape[1], shape[2])
    /\ obs = [imoved |-> FALSE, omoved |-> FALSE,
              iprev |-> gbox.iptr, oprev |-> gbox.optr]
    /\ MultiRegIdle /\ ResetSyncIdle /\ PulseSyncIdle /\ BusSyncIdle /\ ElasticIdle

NextGearboxAny == GearboxFreeIClk \/ GearboxFreeOClk

SpecGearboxAny == InitGearboxAny /\ [][NextGearboxAny]_vars

\* the constructor of a Gearbox run for every pair of widths up to
\* MaxGearWidth
GearboxWidths == 1..MaxGearWidth

InitGearboxInit ==
    /\ \E iwidth \in GearboxWidths, owidth \in GearboxWidths :
           obs = [pc |-> "lcm", iwidth |-> iwidth, owidth |-> owidth,
                  storagesize |-> 0, doublings |-> 0]
    /\ MultiRegIdle /\ ResetSyncIdle /\ PulseSyncIdle
    /\ BusSyncIdle /\ ElasticIdle /\ GearboxIdle

NextGearboxInit ==
    GearboxInitLcm \/ GearboxInitGrowI \/ GearboxInitGrowO \/ GearboxInitChunks

SpecGearboxInit == InitGearboxInit /\ [][NextGearboxInit]_vars

\* elaborations, one after another, each of any generator for any platform
InitElaborate ==
    /\ obs = Elaborated("none", <<>>, PlatformNone, <<>>)
    /\ MultiRegIdle /\ ResetSyncIdle /\ PulseSyncIdle
    /\ BusSyncIdle /\ ElasticIdle /\ GearboxIdle

NextElaborate ==
    \/ ElaborateMultiReg \/ ElaborateResetSynchronizer
    \/ ElaboratePulseSynchronizer \/ ElaborateBusSynchronizer

SpecElaborate == InitElaborate /\ [][NextElaborate]_vars

\* constructor calls, one after another, each with any arguments
InitConstruct ==
    /\ obs = Called("none", <<>>, [raised |-> FALSE, signals |-> 0])
    /\ MultiRegIdle /\ ResetSyncIdle /\ PulseSyncIdle
    /\ BusSyncIdle /\ ElasticIdle /\ GearboxIdle

NextConstruct ==
    \/ NewMultiReg \/ NewResetSynchronizer \/ NewPulseSynchronizer
    \/ NewBusSynchronizer \/ NewElasticBuffer \/ NewGearbox

SpecConstruct == InitConstruct /\ [][NextConstruct]_vars

(***************************************************************************)
(* C5  MultiReg delay.  Without metastability, after any sequence of       *)
(* odomain edges o is the value i had at the n-th most recent odomain      *)
(* edge, and o is the reset value while fewer than n edges have occurred;  *)
(* the chain has exactly n stages.                                         *)
(***************************************************************************)
MultiRegDelay ==
    /\ Len(mreg.regs) = mreg.n
    /\ IF obs.edges >= mreg.n
       THEN MultiRegOut(mreg.regs) = obs.hist[mreg.n]
       ELSE MultiRegOut(mreg.regs) = mreg.reset

\* a three-stage chain whose output is the oldest of three different samples
MultiRegDelayWitness ==
    /\ mreg.n = 3
    /\ obs.edges >= 3
    /\ obs.hist[1] # obs.hist[3]
    /\ obs.hist[2] # obs.hist[3]
    /\ MultiRegOut(mreg.regs) = obs.hist[3]

(***************************************************************************)
(* C6  ResetSynchronizer deassertion timing.  After arst has fallen and    *)
(* while it stays low, the reset of the destination domain is asserted     *)
(* until n edges of the destination clock have occurred, and deasserted    *)
(* from the n-th edge on.                                                  *)
(***************************************************************************)
ResetSyncDeassertion ==
    (obs.fell /\ rsync.arst = 0) =>
        (ResetSyncOut(rsync.regs) = 1 <=> obs.lowEdges < rsync.n)

\* the reset is still asserted n-1 edges after arst fell, n = 3
ResetSyncDeassertionWitness ==
    /\ obs.fell /\ rsync.arst = 0
    /\ rsync.n = 3
    /\ obs.lowEdges = 2
    /\ ResetSyncOut(rsync.regs) = 1

(***************************************************************************)
(* C7  ResetSynchronizer asynchronous assertion.  Whenever arst is high    *)
(* the reset of the destination domain is asserted, whether or not the     *)
(* destination clock has had an edge since arst rose.                      *)
(***************************************************************************)
ResetSyncAssertion ==
    rsync.arst = 1 => ResetSyncOut(rsync.regs) = 1

\* arst rose after the reset had deasserted and no clock edge has followed
ResetSyncAssertionWitness ==
    /\ rsync.arst = 1
    /\ obs.fell
    /\ obs.lowEdges >= rsync.n
    /\ obs.clkSinceRise = 0
    /\ ResetSyncOut(rsync.regs) = 1
(***************************************************************************)
(* C3  PulseSynchronizer single pulse.  From the idle state, one input     *)
(* pulse (i high at exactly one idomain edge) makes o high for exactly one *)
(* odomain cycle under every interleaving: o is low before the pulse, the  *)
(* one cycle in which o is high ends at the (sync_stages+1)-th odomain     *)
(* edge after the idomain edge that captured the pulse, and o is low from  *)
(* then on.                                                                *)
(***************************************************************************)
PulseSingle ==
    /\ obs.nin = 0 => (obs.nout = 0 /\ PulseOut(psync) = 0)
    /\ obs.nin = 1 =>
         IF obs.since >= psync.sync_stages + 1
         THEN obs.nout = 1 /\ PulseOut(psync) = 0
         ELSE obs.nout = 0 /\ (PulseOut(psync) = 1 <=> obs.since = psync.sync_stages)

\* the single output pulse has just been seen, sync_stages+1 edges after the
\* input pulse, with the default two stages
PulseSingleWitness ==
    /\ psync.sync_stages = 2
    /\ obs.nin = 1
    /\ obs.since = 3
    /\ obs.nout = 1
    /\ PulseOut(psync) = 0

(***************************************************************************)
(* C4  PulseSynchronizer never multiplies pulses.  For every input         *)
(* sequence and interleaving, the odomain cycles in which o is high        *)
(* (counting the one in progress) never outnumber the runs of input pulses *)
(* that no odomain edge separates, hence never the input pulses: pulses    *)
(* that occur before the next odomain sample give at most one output pulse.*)
(***************************************************************************)
PulseNeverMultiplies ==
    /\ obs.nout + PulseOut(psync) <= obs.groups
    /\ obs.groups <= obs.nin

\* three input pulses with no odomain edge in between have given one output
\* pulse
PulseNeverMultipliesWitness ==
    /\ obs.nin = 3
    /\ obs.groups = 1
    /\ obs.since >= psync.sync_stages + 1
    /\ obs.nout = 1
(***************************************************************************)
(* C1  BusSynchronizer atomicity.  For width >= 2, sync_stages >= 2 and    *)
(* timeout = 0, under any interleaving of the two clocks and with the      *)
(* first stage of the data crossing capturing each bit of a changed buf_i  *)
(* independently as old or new, o always holds its reset value 0 or a word *)
(* that buf_i held at one single idomain edge, never a mix of two words.   *)
(***************************************************************************)
BusAtomic ==
    bsync.timeout = 0 => bsync.o \in obs.held

\* o holds a word delivered while the data crossing had captured a mix of
\* two words that buf_i never held
BusAtomicWitness ==
    /\ bsync.timeout = 0
    /\ bsync.o # 0
    /\ bsync.o \in obs.held
    /\ \E k \in 1..Len(bsync.regs) : bsync.regs[k] \notin obs.held

(***************************************************************************)
(* C2  BusSynchronizer eventual delivery.  For width >= 2, with both       *)
(* clocks ticking forever, if i is held at a word w from some point on,    *)
(* then o eventually equals w (and, i staying w, remains w).               *)
(***************************************************************************)
BusDelivers ==
    \A w \in Words(2) : <>[](bsync.i = w) => <>[](bsync.o = w)

\* the same with the watchdog disabled
BusDeliversNoWatchdog ==
    \A w \in Words(2) :
        <>[](bsync.i = w /\ bsync.timeout = 0) => <>[](bsync.o = w)
GearboxStream ==
    (gbox.iwidth = 8 /\ gbox.owidth = 2) =>
        /\ Len(obs.emitted) <= 4 * Len(obs.written)
        /\ \A k \in 1..Len(obs.emitted) :
               obs.emitted[k] =
                   (obs.written[(k - 1) \div 4 + 1] \div (4 ^ ((k - 1) % 4))) % 4

\* three different consecutive bytes have come out whole
GearboxStreamWitness ==
    /\ gbox.iwidth = 8 /\ gbox.owidth = 2
    /\ Len(obs.emitted) = 12
    /\ obs.written[1] # obs.written[2]
    /\ obs.written[2] # obs.written[3]

(***************************************************************************)
(* C10  Gearbox storage size for iwidth = 8, owidth = 2 (as amended): the  *)
(* lcm is 8 and the constructor computes a storage size of 32, the lcm     *)
(* doubled twice, which holds 4 input chunks and 16 output chunks.         *)
(***************************************************************************)
GearboxSize8to2 ==
    (gbox.iwidth = 8 /\ gbox.owidth = 2) =>
        /\ GearboxLcm(gbox.iwidth, gbox.owidth) = 8
        /\ gbox.storagesize = 32
        /\ gbox.ichunks = 4
        /\ gbox.ochunks = 16

\* C10 as claimed: the lcm is 8 and the storage size computed is 16
GearboxSize8to2Claimed ==
    (gbox.iwidth = 8 /\ gbox.owidth = 2) =>
        /\ GearboxLcm(gbox.iwidth, gbox.owidth) = 8
        /\ gbox.storagesize = 16

\* a Gearbox constructed for 8 -> 2 whose input pointer has gone through all
\* its chunks
GearboxSize8to2Witness ==
    /\ gbox.iwidth = 8 /\ gbox.owidth = 2
    /\ Len(obs.written) = gbox.ichunks
    /\ gbox.iptr = 0
    /\ gbox.storagesize = gbox.ichunks * gbox.iwidth

(***************************************************************************)
(* C11  Eager parameter validation.  Each constructor raises exactly when  *)
(* a parameter is outside its domain: n or sync_stages not an integer >= 1 *)
(* for MultiReg, ResetSynchronizer and PulseSynchronizer; width < 1,       *)
(* sync_stages < 2 or timeout < 0 for BusSynchronizer; width < 1 or        *)
(* depth <= 1 for ElasticBuffer; iwidth < 1 or owidth < 1 for Gearbox (a   *)
(* value that is not an integer being outside every domain).  A call that  *)
(* raises has allocated no signal; a call that returns has allocated some. *)
(***************************************************************************)
IntAtLeast(v, lo) == v.int /\ v.val >= lo

ArgsValid ==
    LET a == obs.args
    IN  CASE obs.class \in {"MultiReg", "ResetSynchronizer", "PulseSynchronizer"} ->
                 IntAtLeast(a[1], 1)
          [] obs.class = "BusSynchronizer" ->
                 IntAtLeast(a[1], 1) /\ IntAtLeast(a[2], 2) /\ IntAtLeast(a[3], 0)
          [] obs.class = "ElasticBuffer" ->
                 IntAtLeast(a[1], 1) /\ IntAtLeast(a[2], 2)
          [] obs.class = "Gearbox" ->
                 IntAtLeast(a[1], 1) /\ IntAtLeast(a[2], 1)
          [] OTHER -> TRUE

EagerValidation ==
    /\ obs.raised <=> ~ArgsValid
    /\ obs.raised => obs.signals = 0
    /\ (~obs.raised /\ obs.class # "none") => obs.signals > 0

\* a BusSynchronizer refused for its timeout alone, width and sync_stages
\* being at their boundary values, with nothing allocated
EagerValidationWitness ==
    /\ obs.class = "BusSynchronizer"
    /\ obs.args = <<PyInt(1), PyInt(2), PyInt(0 - 1)>>
    /\ obs.raised
    /\ obs.signals = 0

(***************************************************************************)
(* C12  BusSynchronizer width-1 fast path.  For width = 1 and every        *)
(* sync_stages >= 2 and timeout, beside a MultiReg(i, o, odomain,          *)
(* n=sync_stages) given the same input at the same odomain edges, o of the *)
(* BusSynchronizer equals o of the MultiReg in every state, and the        *)
(* circuit has the sync_stages registers of that MultiReg and no request,  *)
(* acknowledge or watchdog state.                                          *)
(***************************************************************************)
BusFastPath ==
    /\ BusO(bsync) = MultiRegOut(mreg.regs)
    /\ DOMAIN bsync = {"width", "sync_stages", "timeout", "i", "regs"}
    /\ Len(bsync.regs) = bsync.sync_stages

\* a one has come through the three stages while i is back at zero, with
\* the default timeout
BusFastPathWitness ==
    /\ bsync.width = 1 /\ bsync.sync_stages = 3 /\ bsync.timeout = 127
    /\ bsync.i = 0
    /\ bsync.regs[1] = 0
    /\ BusO(bsync) = 1
    /\ MultiRegOut(mreg.regs) = 1

(***************************************************************************)
(* C13  BusSynchronizer watchdog re-request.  For timeout > 0 and          *)
(* width >= 2, with both clocks ticking forever, the handshake never       *)
(* stalls: req is asserted again and again, and so is ack_i, every         *)
(* request left unanswered being repeated by the watchdog until one is     *)
(* acknowledged.                                                           *)
(***************************************************************************)
BusWatchdogResumes ==
    bsync.timeout > 0 =>
        /\ []<>(BusReq(bsync) = 1)
        /\ []<>(BusAckI(bsync) = 1)

(***************************************************************************)
(* C14  BusSynchronizer without watchdog.  With timeout = 0, req is        *)
(* asserted exactly in the first idomain cycle after reset (start) and in  *)
(* the idomain cycles in which ack_i is asserted; once the single request  *)
(* in flight has been lost, req is never asserted again and o never        *)
(* changes again.                                                          *)
(***************************************************************************)
BusNoWatchdog ==
    bsync.timeout = 0 =>
        /\ bsync.start = 1 <=> ~obs.started
        /\ BusReq(bsync) = 1 <=> (~obs.started \/ BusAckI(bsync) = 1)
        /\ obs.lost => (BusReq(bsync) = 0 /\ BusAckI(bsync) = 0
                         /\ bsync.o = obs.o_lost)

\* a request was lost after a word had been delivered; two idomain edges
\* later i holds another word and o still the delivered one
BusNoWatchdogWitness ==
    /\ bsync.timeout = 0
    /\ obs.lost
    /\ obs.iafter = 2
    /\ obs.o_lost # 0
    /\ bsync.o = obs.o_lost
    /\ bsync.i # bsync.o
    /\ bsync.buf_i # bsync.o

(***************************************************************************)
(* C15  PulseSynchronizer at 100% duty cycle.  When at least one odomain   *)
(* edge lies between any two consecutive idomain edges, i may be high at   *)
(* every idomain edge and no pulse is dropped: at any time the output      *)
(* pulses seen and the toggles still on their way add up to the input      *)
(* pulses, and in every run the number of output pulses eventually equals  *)
(* the number of input pulses.                                             *)
(***************************************************************************)
PulseFullDuty ==
    /\ [](obs.nout + PulseInFlight(psync) = obs.nin)
    /\ <>[](obs.nout = obs.nin)

\* three pulses given at three idomain edges in a row have all come out
PulseFullDutyWitness ==
    /\ obs.run = 3
    /\ obs.nin = 3
    /\ obs.nout = 3
    /\ PulseInFlight(psync) = 0

(***************************************************************************)
(* C16  MultiReg reset behaviour.  Every stage starts at the value reset.  *)
(* reset_less is True by default, and then the reset of odomain has no     *)
(* effect on the chain: its assertion leaves every stage as it is and an   *)
(* edge of odomain shifts the chain as without reset.  With                *)
(* reset_less=False, once the reset of odomain is asserted and has taken   *)
(* effect (at the next edge of odomain, or at once when the reset of       *)
(* odomain is asynchronous) every stage, hence o, holds the value reset.   *)
(* The reset of another domain leaves every stage as it is.                *)
(***************************************************************************)
MultiRegResetBehaviour ==
    LET AllReset == \A k \in 1..mreg.n : mreg.regs[k] = mreg.reset
    IN  /\ MultiRegDefaultResetLess = TRUE
        /\ obs.last = "init" => AllReset
        /\ (mreg.reset_less /\ obs.last = "clk") =>
               mreg.regs = MultiRegEdge(obs.before, obs.v)
        /\ (mreg.reset_less /\ obs.last = "rst") => mreg.regs = obs.before
        /\ (~mreg.reset_less /\ obs.rst = 1 /\ (obs.async \/ obs.edged)) =>
               (AllReset /\ MultiRegOut(mreg.regs) = mreg.reset)
        /\ (~mreg.reset_less /\ obs.rst = 0 /\ obs.last = "clk") =>
               mreg.regs = MultiRegEdge(obs.before, obs.v)
        /\ obs.last = "other" => mreg.regs = obs.before

\* a chain with reset_less=True whose stages, none at the reset value, were
\* shifted by an edge of odomain while the reset of odomain was asserted
MultiRegResetBehaviourWitness ==
    /\ mreg.reset_less /\ mreg.n = 3 /\ mreg.reset = 0
    /\ obs.rst = 1 /\ obs.last = "clk" /\ obs.edged
    /\ \A k \in 1..3 : obs.before[k] # 0
    /\ mreg.regs[1] # mreg.regs[2]
    /\ mreg.regs[2] = obs.before[1]

(***************************************************************************)
(* C17  Platform override dispatch.  The fragment of a MultiReg is exactly *)
(* platform.get_multi_reg(self) when the platform has get_multi_reg, and   *)
(* that of a ResetSynchronizer exactly platform.get_reset_sync(self) when  *)
(* the platform has get_reset_sync, no generic chain being built then;     *)
(* when the method is absent, or the platform None, the generic chain of n *)
(* registers is built.  The same holds of every crossing of a              *)
(* PulseSynchronizer (one MultiReg of sync_stages stages) and of a         *)
(* BusSynchronizer (one MultiReg for width 1; otherwise those of           *)
(* sync_stages + 1, sync_stages and sync_stages stages).                   *)
(***************************************************************************)
PlatformOverride ==
    LET method == IF obs.class = "ResetSynchronizer"
                  THEN "get_reset_sync" ELSE "get_multi_reg"
        has == ~obs.platform.is_none /\ method \in obs.platform.attrs
        stages ==
            CASE obs.class \in {"MultiReg", "ResetSynchronizer", "PulseSynchronizer"} ->
                     <<obs.params[1]>>
              [] obs.class = "BusSynchronizer" ->
                     IF obs.params[1] = 1 THEN <<obs.params[2]>>
                     ELSE <<obs.params[2] + 1, obs.params[2], obs.params[2]>>
              [] OTHER -> <<>>
    IN  /\ Len(obs.fragments) = Len(stages)
        /\ \A k \in 1..Len(obs.fragments) :
               LET f == obs.fragments[k]
               IN  /\ f.self.n = stages[k]
                   /\ obs.class = "MultiReg" =>
                          f.self = MultiRegNew(obs.params[1], obs.params[2])
                   /\ has => (f.override /\ f.method = method /\ f.chain = <<>>)
                   /\ ~has => (~f.override /\ Len(f.chain) = stages[k])

\* a BusSynchronizer of width 2 elaborated for a platform that has
\* get_multi_reg and not get_reset_sync: its three crossings are overridden
PlatformOverrideWitness ==
    /\ obs.class = "BusSynchronizer"
    /\ obs.params = <<2, 2>>
    /\ obs.platform = PlatformWith({"get_multi_reg"})
    /\ Len(obs.fragments) = 3
    /\ \A k \in 1..3 : obs.fragments[k].override

(***************************************************************************)
(* C18  Gearbox pointer range.  For all widths, the pointers being         *)
(* registers of their declared widths, iptr is always in 0..ichunks-1 and  *)
(* optr in 0..ochunks-1, and each edge of a clock advances the pointer of  *)
(* its side by one modulo its chunk count, so that it wraps to 0 after its *)
(* chunk count minus one.                                                  *)
(***************************************************************************)
GearboxPointerRange ==
    /\ gbox.iptr \in 0..(gbox.ichunks - 1)
    /\ gbox.optr \in 0..(gbox.ochunks - 1)
    /\ obs.imoved => gbox.iptr = (obs.iprev + 1) % gbox.ichunks
    /\ obs.omoved => gbox.optr = (obs.oprev + 1) % gbox.ochunks

(***************************************************************************)
(* C19  Gearbox initial pointer placement (as amended).  For all           *)
(* iwidth # owidth, the pointer of the side with the larger chunk count    *)
(* (the narrower side, whose clock is the faster) resets to the midpoint   *)
(* of its range, its chunk count divided by two, and the pointer of the    *)
(* other side resets to 0.                                                 *)
(***************************************************************************)
GearboxPlacement ==
    /\ gbox.ichunks # gbox.ochunks
    /\ ~obs.imoved =>
           gbox.iptr = IF gbox.ichunks > gbox.ochunks THEN gbox.ichunks \div 2 ELSE 0
    /\ ~obs.omoved =>
           gbox.optr = IF gbox.ochunks > gbox.ichunks THEN gbox.ochunks \div 2 ELSE 0

\* C19 as claimed: the pointer of the side with the smaller chunk count
\* resets to the midpoint of its range and the other pointer to 0
GearboxPlacementClaimed ==
    /\ ~obs.imoved =>
           gbox.iptr = IF gbox.ichunks < gbox.ochunks THEN gbox.ichunks \div 2 ELSE 0
    /\ ~obs.omoved =>
           gbox.optr = IF gbox.ochunks < gbox.ichunks THEN gbox.ochunks \div 2 ELSE 0

\* a Gearbox from 2 to 3 bits, six input chunks and four output chunks,
\* whose input pointer is still where reset put it, at 3, the output pointer
\* having left 0
GearboxPlacementWitness ==
    /\ gbox.iwidth = 2 /\ gbox.owidth = 3
    /\ gbox.ichunks = 6 /\ gbox.ochunks = 4
    /\ ~obs.imoved /\ obs.omoved
    /\ gbox.iptr = 3
    /\ obs.oprev = 0

(***************************************************************************)
(* C20  BusSynchronizer countdown reload value.  For every timeout >= 1,   *)
(* the countdown being a register of its declared width, countdown equals  *)
(* timeout after reset and after every idomain edge at which ack_i or req  *)
(* was asserted, and after any other idomain edge it is one less than      *)
(* before, or 0 if it was 0: the reload value is not truncated, also when  *)
(* timeout is a power of two.                                              *)
(***************************************************************************)
BusCountdownReloads ==
    bsync.timeout >= 1 =>
        /\ ~obs.started => bsync.countdown = bsync.timeout
        /\ (obs.started /\ obs.reloaded) => bsync.countdown = bsync.timeout
        /\ (obs.started /\ ~obs.reloaded) =>
               bsync.countdown = IF obs.prev > 0 THEN obs.prev - 1 ELSE 0

(***************************************************************************)
(* C21  BusSynchronizer atomicity under a spurious watchdog.  For          *)
(* width >= 2 and a timeout > 0 shorter than the round trip of the         *)
(* handshake, under any interleaving of the two clocks and with the first  *)
(* stage of the data crossing capturing each bit of a changed buf_i        *)
(* independently as old or new, o always holds its reset value 0 or a word *)
(* that buf_i held at one single idomain edge, never a mix of two words.   *)
(***************************************************************************)
BusAtomicWatchdog ==
    bsync.timeout > 0 => bsync.o \in obs.held

(***************************************************************************)
(* C22  BusSynchronizer watchdog makes no request storm.  For every        *)
(* timeout >= 1, a req forced by the watchdog (countdown = 0) comes no     *)
(* sooner than timeout + 1 idomain cycles after the last cycle in which    *)
(* req or ack_i was asserted: it lasts one cycle, and req is never         *)
(* asserted by the watchdog in the cycle that follows a req.               *)
(***************************************************************************)
BusNoRequestStorm ==
    (bsync.timeout >= 1 /\ obs.started /\ bsync.countdown = 0) =>
        /\ BusReq(bsync) = 1
        /\ obs.since >= bsync.timeout + 1

(***************************************************************************)
(* C23  BusSynchronizer handshake order.  With timeout = 0 and             *)
(* width >= 2 exactly one request token circulates, in the order req,      *)
(* ack_o, ack_i, req, ...: the req pulses counted so far exceed the ack_o  *)
(* pulses, and the ack_o pulses the ack_i pulses, by 0 or 1, and so do the *)
(* req pulses the ack_i pulses; ack_o is asserted only with a request      *)
(* pending and no acknowledge on its way back, ack_i only with an          *)
(* acknowledge on its way back, and req only when no request was made yet  *)
(* or in the very cycle in which ack_i acknowledges the previous one.      *)
(***************************************************************************)
BusHandshakeOrder ==
    bsync.timeout = 0 =>
        /\ obs.req_acko \in {0, 1}
        /\ obs.acko_acki \in {0, 1}
        /\ obs.req_acko + obs.acko_acki \in {0, 1}
        /\ BusAckO(bsync) = 1 => (obs.req_acko = 1 /\ obs.acko_acki = 0)
        /\ BusAckI(bsync) = 1 => (obs.acko_acki = 1 /\ obs.req_acko = 0)
        /\ BusReq(bsync) = 1 =>
               (BusAckI(bsync) = 1 \/ obs.req_acko + obs.acko_acki = 0)

\* two handshakes are complete and the third request has been answered by
\* ack_o, whose acknowledge is on its way back
BusHandshakeOrderWitness ==
    /\ bsync.timeout = 0
    /\ obs.rounds = 2
    /\ obs.req_acko = 0
    /\ obs.acko_acki = 1
    /\ BusAckI(bsync) = 0

(***************************************************************************)
(* C24  BusSynchronizer sampling points.  For width >= 2, an idomain edge  *)
(* leaves o as it is and changes buf_i only if ack_i is asserted, buf_i    *)
(* taking the value of i then; an odomain edge leaves buf_i as it is and   *)
(* changes o only if ack_o is asserted, o taking then the word buf_i       *)
(* holds, which is the value i had at the most recent ack_i; the first     *)
(* handshake after reset delivers 0, the reset value of buf_i.             *)
(***************************************************************************)
BusSamplingPoints ==
    /\ obs.last = "i" =>
           /\ bsync.o = obs.o_then
           /\ bsync.buf_i = IF obs.latched THEN obs.i_then ELSE obs.buf_i_then
    /\ obs.last = "o" =>
           /\ bsync.buf_i = obs.buf_i_then
           /\ bsync.o = IF obs.loaded THEN obs.buf_i_then ELSE obs.o_then
    /\ obs.loads <= 1 => bsync.o = 0

(***************************************************************************)
(* C25  ElasticBuffer pointer invariant.  For every depth > 1, wptr starts *)
(* at depth // 2 and rptr at 0 and both stay in 0..depth-1; an idomain     *)
(* edge moves wptr, and no other pointer, to (wptr + 1) mod depth and      *)
(* writes i at the address wptr held, whatever the state of the buffer; an *)
(* odomain edge moves rptr, and no other pointer, to (rptr + 1) mod depth  *)
(* and writes nothing; so the distance from rptr to wptr is depth // 2     *)
(* plus the lead of idomain, modulo depth, and the write pointer meets the *)
(* read pointer once one clock has run far enough ahead of the other.      *)
(***************************************************************************)
ElasticPointers ==
    /\ ebuf.wptr \in 0..(ebuf.depth - 1)
    /\ ebuf.rptr \in 0..(ebuf.depth - 1)
    /\ obs.last = "none" => ebuf.wptr = ebuf.depth \div 2 /\ ebuf.rptr = 0
    /\ obs.last = "i" =>
           /\ ebuf.wptr = (obs.then.wptr + 1) % ebuf.depth
           /\ ebuf.rptr = obs.then.rptr
           /\ ebuf.storage = [obs.then.storage EXCEPT ![obs.then.wptr] = obs.i]
    /\ obs.last = "o" =>
           /\ ebuf.rptr = (obs.then.rptr + 1) % ebuf.depth
           /\ ebuf.wptr = obs.then.wptr
           /\ ebuf.storage = obs.then.storage
    /\ (ebuf.wptr - ebuf.rptr) % ebuf.depth
           = (ebuf.depth \div 2 + obs.lead) % ebuf.depth
    /\ obs.lead \in {ebuf.depth - ebuf.depth \div 2, -(ebuf.depth \div 2)}
           => ebuf.wptr = ebuf.rptr

\* depth 3, not a power of two: idomain two edges ahead, the write pointer
\* wrapped from 2 to 0 and standing on the read pointer
ElasticPointersWitness ==
    /\ ebuf.depth = 3
    /\ obs.last = "i"
    /\ obs.lead = 2
    /\ obs.then.wptr = 2
    /\ ebuf.wptr = 0
    /\ ebuf.rptr = 0

(***************************************************************************)
(* C26  Gearbox storage sizing.  For all iwidth, owidth >= 1 the           *)
(* constructor terminates (its loops double storagesize at most twice and  *)
(* no assertion fails) with storagesize = lcm(iwidth, owidth) * 2^k for    *)
(* the smallest k >= 0 that gives at least 4 input chunks and at least 4   *)
(* output chunks; storagesize is ichunks * iwidth and ochunks * owidth,    *)
(* and every bit of the storage lies in exactly one input chunk slice and  *)
(* in exactly one output chunk slice, no slice reaching past the storage.  *)
(***************************************************************************)
GearboxSliceOf(bit, width, chunks) ==
    {n \in 0..(chunks - 1) : n * width <= bit /\ bit < (n + 1) * width}

GearboxSizing ==
    /\ obs.pc # "AssertionError"
    /\ obs.doublings <= 2
    /\ obs.pc = "done" =>
           LET lcm == CHOOSE l \in 1..(obs.iwidth * obs.owidth) :
                          /\ l % obs.iwidth = 0 /\ l % obs.owidth = 0
                          /\ \A j \in 1..(l - 1) :
                                 j % obs.iwidth # 0 \/ j % obs.owidth # 0
               k == obs.doublings
               size == gbox.storagesize
           IN  /\ size = obs.storagesize
               /\ size = lcm * 2 ^ k
               /\ size \div obs.iwidth >= 4 /\ size \div obs.owidth >= 4
               /\ k > 0 => \/ (size \div 2) \div obs.iwidth < 4
                           \/ (size \div 2) \div obs.owidth < 4
               /\ gbox.ichunks * obs.iwidth = size
               /\ gbox.ochunks * obs.owidth = size
               /\ DOMAIN gbox.storage = 0..(size - 1)
               /\ \A bit \in 0..(size - 1) :
                      /\ Cardinality(GearboxSliceOf(bit, obs.iwidth, gbox.ichunks)) = 1
                      /\ Cardinality(GearboxSliceOf(bit, obs.owidth, gbox.ochunks)) = 1
               /\ gbox.ichunks * obs.iwidth - 1 \in 0..(size - 1)
               /\ gbox.ochunks * obs.owidth - 1 \in 0..(size - 1)

\* Gearbox(3, 2): the least common multiple 6 doubled once, 4 input chunks
\* and 6 output chunks
GearboxSizingWitness ==
    /\ obs.pc = "done"
    /\ obs.iwidth = 3 /\ obs.owidth = 2
    /\ obs.doublings = 1
    /\ gbox.storagesize = 12
    /\ gbox.ichunks = 4 /\ gbox.ochunks = 6

(***************************************************************************)
(* C27  ResetSynchronizer restart on re-assertion.  While arst is high     *)
(* every stage holds 1, also when arst rose in the middle of a release     *)
(* (fewer than n destination edges after it fell) and no clock edge has    *)
(* followed; so the reset of the destination domain is deasserted only     *)
(* when arst is low and has been low across n consecutive destination      *)
(* edges; and at power-on with arst never asserted the reset is asserted   *)
(* for the first n destination edges and deasserted from the n-th on.      *)
(***************************************************************************)
ResetSyncRestart ==
    /\ rsync.arst = 1 => \A k \in 1..rsync.n : rsync.regs[k] = 1
    /\ ResetSyncOut(rsync.regs) = 0 =>
           rsync.arst = 0 /\ obs.lowEdges >= rsync.n
    /\ (~obs.fell /\ rsync.arst = 0) =>
           (ResetSyncOut(rsync.regs) = 1 <=> obs.lowEdges < rsync.n)

\* n = 3: arst rose again after two of the three edges of a release, and no
\* clock edge has come since
ResetSyncRestartWitness ==
    /\ rsync.n = 3
    /\ rsync.arst = 1
    /\ obs.fell
    /\ obs.lowEdges = 2
    /\ obs.clkSinceRise = 0
    /\ rsync.regs = ResetSyncRegs(3)

(***************************************************************************)
(* C28  PulseSynchronizer parity invariant.  In every reachable state the  *)
(* input toggle is the parity of the input pulses so far, the delayed      *)
(* output toggle otoggle_prev the parity of the output pulses completed    *)
(* and the output toggle that of the output pulses counting the one in     *)
(* progress; so once sync_stages+1 odomain edges have followed the last    *)
(* input pulse, the output pulses have the parity of the input pulses:     *)
(* pulses are lost in pairs only, and an odd number of input pulses has    *)
(* given at least one output pulse.                                        *)
(***************************************************************************)
PulseParity ==
    /\ psync.itoggle = obs.nin % 2
    /\ psync.otoggle_prev = obs.nout % 2
    /\ MultiRegOut(psync.regs) = (obs.nout + PulseOut(psync)) % 2
    /\ obs.since >= psync.sync_stages + 1 =>
           /\ PulseOut(psync) = 0
           /\ obs.nout % 2 = obs.nin % 2
           /\ (obs.nin - obs.nout) % 2 = 0
           /\ obs.nin % 2 = 1 => obs.nout >= 1

\* three input pulses of which two, not separated by an odomain edge, were
\* lost together: one output pulse, both toggles at 1
PulseParityWitness ==
    /\ psync.sync_stages = 2
    /\ obs.nin = 3
    /\ obs.groups = 2
    /\ obs.nout = 1
    /\ obs.since = psync.sync_stages + 1
    /\ psync.itoggle = 1
    /\ psync.otoggle_prev = 1
====
